---- MODULE Spec2Model ----
(***************************************************************************)
(* A model of mostly-entity: the Dynamic converter registry                *)
(* (src/src/index.js) and the Entity mapping definition and its parse      *)
(* engine (src/src/entity.js).                                             *)
(*                                                                         *)
(* JavaScript values are tagged records [t, v]: t is the kind of the value *)
(* and v its payload.  A call's outcome is [ok, val]: a returned value or  *)
(* a thrown error.                                                         *)
(***************************************************************************)
EXTENDS Integers, Sequences, FiniteSets, TLC

VARIABLES
  converters,  \* Dynamic.converters: own properties, type name -> converter
  regHist,     \* history: the last define/undefine call made on each type name
  conv,        \* the last Dynamic.convert call: its arguments and its outcome
  ents,        \* the Entity objects: id -> [name, tbl, discards, frozen]
  tables,      \* the _mappings objects: reference -> (output key -> rule)
  exposedWith, \* history: the options of the expose call that stored each rule
  specMap,     \* the caller's specification object handed to define
  specOrig,    \* history: that object as the caller wrote it
  builds,      \* history: the number of new Entity(name, specMap) calls made
  last,        \* the last definition call: operation, receiver, outcome
  pres         \* the last parse call: its arguments, its steps and its outcome

vars == <<converters, regHist, conv, ents, tables, exposedWith, specMap,
          specOrig, builds, last, pres>>

----------------------------------------------------------------------------
(* Bounds of the model *)

\* longest array handed to Dynamic.convert
MaxArr == 2
\* most Entity objects alive at once
MaxEnt == 3
\* most definitions built from one specification object
MaxBuilds == 3

----------------------------------------------------------------------------
(* JavaScript values *)

Undef == [t |-> "undefined", v |-> "undefined"]
Null == [t |-> "null", v |-> "null"]
NaN == [t |-> "NaN", v |-> "NaN"]
Bool(b) == [t |-> "boolean", v |-> b]
Num(n) == [t |-> "number", v |-> n]
Str(s) == [t |-> "string", v |-> s]
Arr(s) == [t |-> "array", v |-> s]
Obj(f) == [t |-> "object", v |-> f]
Fn(n) == [t |-> "function", v |-> n]
EntRef(i) == [t |-> "entity", v |-> i]
\* the result of a user function or a host constructor the model leaves opaque
App(f, a) == [t |-> "app", v |-> <<f, a>>]
Err(m) == [t |-> "error", v |-> m]

Ret(v) == [ok |-> TRUE, val |-> v]
Throw(m) == [ok |-> FALSE, val |-> Err(m)]

EmptyObj == Obj([k \in {} |-> Undef])

\* obj[k] / _.get(obj, k) for a key without dots
Prop(o, k) == IF o.t = "object" /\ k \in DOMAIN o.v THEN o.v[k] ELSE Undef

\* JavaScript truthiness: !!v
Truthy(v) ==
  CASE v.t = "undefined" -> FALSE
    [] v.t = "null" -> FALSE
    [] v.t = "NaN" -> FALSE
    [] v.t = "boolean" -> v.v
    [] v.t = "number" -> v.v # 0
    [] v.t = "string" -> v.v # ""
    [] OTHER -> TRUE

\* fp.isNil / _.isNil
isNil(v) == v.t \in {"undefined", "null"}

----------------------------------------------------------------------------
(* Strings, character by character *)

\* the printable ASCII characters in code order, from the space (32); the place
\* of the grave accent (96), which a string of this language cannot hold, is
\* held by a second space
Ascii == " !\"#$%&'()*+,-./0123456789:;<=>?@ABCDEFGHIJKLMNOPQRSTUVWXYZ[\\]^_ abcdefghijklmnopqrstuvwxyz{|}~"
Upper == "ABCDEFGHIJKLMNOPQRSTUVWXYZ"
Lower == "abcdefghijklmnopqrstuvwxyz"
Digits == "0123456789"

CharAt(s, i) == SubSeq(s, i, i)
IndexIn(c, s) == IF \E i \in 1..Len(s) : CharAt(s, i) = c
                 THEN CHOOSE i \in 1..Len(s) : CharAt(s, i) = c
                 ELSE 0
\* the UTF-16 code unit of a printable ASCII character
CharCode(c) == 31 + IndexIn(c, Ascii)

\* a < b on strings: code unit by code unit, a proper prefix first
RECURSIVE StrLess(_, _)
StrLess(a, b) ==
  IF Len(b) = 0 THEN FALSE
  ELSE IF Len(a) = 0 THEN TRUE
  ELSE IF CharAt(a, 1) = CharAt(b, 1)
       THEN StrLess(SubSeq(a, 2, Len(a)), SubSeq(b, 2, Len(b)))
       ELSE CharCode(CharAt(a, 1)) < CharCode(CharAt(b, 1))

\* String.prototype.toLowerCase
RECURSIVE toLowerCase(_)
toLowerCase(s) ==
  IF Len(s) = 0 THEN ""
  ELSE LET c == CharAt(s, 1)
           u == IndexIn(c, Upper)
       IN (IF u = 0 THEN c ELSE CharAt(Lower, u)) \o toLowerCase(SubSeq(s, 2, Len(s)))

\* Number(s) of a string: the decimal digit strings, NaN for the rest
RECURSIVE DigitsValue(_, _)
DigitsValue(s, acc) ==
  IF Len(s) = 0 THEN acc
  ELSE DigitsValue(SubSeq(s, 2, Len(s)), 10 * acc + (IndexIn(CharAt(s, 1), Digits) - 1))

StrToNumber(s) ==
  IF Len(s) = 0 THEN Num(0)
  ELSE IF \A i \in 1..Len(s) : IndexIn(CharAt(s, i), Digits) # 0
       THEN Num(DigitsValue(s, 0))
       ELSE NaN

\* String(n) of a natural number
RECURSIVE NatToStr(_)
NatToStr(n) ==
  IF n < 10 THEN CharAt(Digits, n + 1)
  ELSE NatToStr(n \div 10) \o CharAt(Digits, (n % 10) + 1)

----------------------------------------------------------------------------
(* Functions as values: the built-in converters, and the user's functions *)

\* Number(v), reached by convertNumber with a truthy v only
NumberOf(v) ==
  CASE v.t \in {"number", "NaN"} -> v
    [] v.t = "string" -> StrToNumber(v.v)
    [] v.t = "boolean" -> Num(IF v.v THEN 1 ELSE 0)
    [] v.t = "object" -> NaN
    [] OTHER -> App("Number", v)

\* String(v), reached by convertString with a truthy non-string v only
StringOf(v) ==
  CASE v.t = "number" /\ v.v >= 0 -> Str(NatToStr(v.v))
    [] v.t = "boolean" -> Str(IF v.v THEN "true" ELSE "false")
    [] v.t = "object" -> Str("[object Object]")
    [] OTHER -> App("String", v)

convertNumber(val) ==
  IF val = Num(0) THEN val
  ELSE IF ~Truthy(val) THEN val
  ELSE NumberOf(val)

convertDate(val) ==
  IF val.t = "date" THEN val
  ELSE IF ~Truthy(val) THEN val
  ELSE [t |-> "date", v |-> val]

convertString(val) ==
  IF val.t = "string" THEN val
  ELSE IF ~Truthy(val) THEN val
  ELSE StringOf(val)

convertBoolean(val) ==
  CASE val.t = "string" -> Bool(val.v \notin {"false", "undefined", "null", "0", ""})
    [] val.t = "number" -> Bool(val.v # 0)
    [] val.t = "NaN" -> Bool(TRUE)
    [] OTHER -> Bool(Truthy(val))

convertAny(val) == val

\* properties every object literal inherits from Object.prototype
ObjectProto ==
  [constructor |-> Fn("Object"), toString |-> Fn("Object.prototype.toString")]

\* f(val, ctx) for a function value f.  The user's functions are cTag (returns
\* a value made from its argument), cNull (returns null), cUndef (returns
\* undefined), cTrue and cFalse (predicates) and cThrow (throws).
Call(f, val, ctx) ==
  CASE f = Fn("convertNumber") -> Ret(convertNumber(val))
    [] f = Fn("convertDate") -> Ret(convertDate(val))
    [] f = Fn("convertString") -> Ret(convertString(val))
    [] f = Fn("convertBoolean") -> Ret(convertBoolean(val))
    [] f = Fn("convertAny") -> Ret(convertAny(val))
    [] f = Fn("Object") -> Ret(App("Object", val))
    [] f = Fn("Object.prototype.toString") -> Ret(Str("[object Undefined]"))
    [] f = Fn("cTag") -> Ret(App("cTag", val))
    [] f = Fn("cNull") -> Ret(Null)
    [] f = Fn("cUndef") -> Ret(Undef)
    [] f = Fn("cTrue") -> Ret(Bool(TRUE))
    [] f = Fn("cFalse") -> Ret(Bool(FALSE))
    [] f = Fn("cThrow") -> Throw("cThrow")
    [] OTHER -> Throw("TypeError: not a function")

----------------------------------------------------------------------------
(* Dynamic: the converter registry (src/src/index.js) *)

\* Dynamic.converters = {} and the five Dynamic.define calls of the built-ins
BuiltinConverters ==
  [number |-> Fn("convertNumber"), date |-> Fn("convertDate"),
   string |-> Fn("convertString"), boolean |-> Fn("convertBoolean"),
   any |-> Fn("convertAny")]

\* the property key a value used as a type name names
TypeKey(type) == IF type.t = "string" THEN type.v ELSE type.t

\* Dynamic.getConverter: Dynamic.converters[type], a property read of an object
\* literal, which finds own properties and then inherited ones
getConverter(type) ==
  LET k == TypeKey(type)
  IN IF k \in DOMAIN converters THEN converters[k]
     ELSE IF k \in DOMAIN ObjectProto THEN ObjectProto[k]
     ELSE Undef

\* Dynamic.canConvert
canConvert(type) == Truthy(getConverter(type))

NoConverter(type) == Throw("No Type converter defined for " \o TypeKey(type))

\* Dynamic.prototype.to
to(val, ctx, type) ==
  LET converter == getConverter(type)
  IN IF ~Truthy(converter) THEN NoConverter(type)
     ELSE Call(converter, val, ctx)

\* a bug: null is taken for an absent value too
arrayWrap_looseNil(val) ==
  IF val.t # "array"
  THEN IF isNil(val) \/ val = Str("") THEN Arr(<<>>) ELSE Arr(<<val>>)
  ELSE val

\* Dynamic.convert, the array-form type: a value that is no array is wrapped
arrayWrap(val) ==
  IF val.t # "array"
  THEN IF val = Undef \/ val = Str("") THEN Arr(<<>>) ELSE Arr(<<val>>)
  ELSE val

\* toType[0]
TypeElem(toType) == IF Len(toType.v) >= 1 THEN toType.v[1] ELSE Undef

\* _.map(val, f) where f may throw: the first throw ends the map
RECURSIVE mapResults(_)
mapResults(rs) ==
  IF rs = <<>> THEN Ret(Arr(<<>>))
  ELSE IF ~rs[1].ok THEN rs[1]
  ELSE LET rest == mapResults(Tail(rs))
       IN IF ~rest.ok THEN rest ELSE Ret(Arr(<<rs[1].val>> \o rest.val.v))

\* Dynamic.convert
RECURSIVE convert(_, _, _)
convert(val, toType, ctx) ==
  IF toType.t = "array"
  THEN convert(arrayWrap(val), TypeElem(toType), ctx)
  ELSE IF val.t = "array"
  THEN mapResults([i \in 1..Len(val.v) |-> convert(val.v[i], toType, ctx)])
  ELSE to(val, ctx, toType)

\* Dynamic.define: Dynamic.converters[name] = converter
define(reg, name, converter) ==
  [k \in DOMAIN reg \cup {name} |-> IF k = name THEN converter ELSE reg[k]]

\* Dynamic.undefine: delete Dynamic.converters[name]
undefine(reg, name) == [k \in DOMAIN reg \ {name} |-> reg[k]]

----------------------------------------------------------------------------
(* Entity: the mapping definition (src/src/entity.js) *)

isString(v) == v.t = "string"
isFunction(v) == v.t = "function"
isPlainObject(v) == v.t = "object"
isEntity(v) == v.t = "entity"

\* /^[a-zA-Z0-9_\.]+$/.test(s)
NameCharOK(c) ==
  \/ IndexIn(c, Upper) # 0
  \/ IndexIn(c, Lower) # 0
  \/ IndexIn(c, Digits) # 0
  \/ c \in {"_", "."}
NamePattern(s) == Len(s) >= 1 /\ \A i \in 1..Len(s) : NameCharOK(CharAt(s, i))

\* a || b
OrElse(a, b) == IF Truthy(a) THEN a ELSE b

\* expose, lines 140-147: the name and the option combinations it asserts
exposeChecks(name, options, fn) ==
  LET validName == isString(name) /\ NamePattern(name.v)
      invalidAsFunc == Truthy(Prop(options, "as")) /\ Truthy(fn)
      invalidValueFunc == Truthy(Prop(options, "as")) /\ Truthy(fn)
      invalidValueAs == Truthy(Prop(options, "as")) /\ Truthy(fn)
  IN IF ~validName THEN Throw("is not a valid string")
     ELSE IF invalidAsFunc THEN Throw("You can not use the :as option with function.")
     ELSE IF invalidValueFunc THEN Throw("You can not use the :value option with function.")
     ELSE IF invalidValueAs THEN Throw("You can not use the :value option with :as option.")
     ELSE Ret(Undef)

\* expose, lines 149-154: the rule's type
exposeType(options) ==
  LET ot == Prop(options, "type")
      type == IF ot.t = "array"
              THEN Arr(<<OrElse(IF Len(ot.v) >= 1 THEN ot.v[1] ELSE Undef, Str("any"))>>)
              ELSE OrElse(ot, Str("any"))
  IN IF type.t = "string" THEN Ret(Str(toLowerCase(type.v)))
     ELSE Throw("TypeError: type.toLowerCase is not a function")

\* a bug: a function given to expose decides the act, whatever the get, value
\* or omit option
exposeAct_functionWins(name, options, fn) ==
  IF Truthy(Prop(options, "as"))
  THEN [key |-> Prop(options, "as"), act |-> "alias", value |-> name]
  ELSE IF Truthy(fn)
  THEN [key |-> name, act |-> "function", value |-> fn]
  ELSE IF Truthy(Prop(options, "get"))
  THEN [key |-> name, act |-> "get", value |-> Prop(options, "get")]
  ELSE IF Truthy(Prop(options, "value"))
  THEN [key |-> name, act |-> "value", value |-> Prop(options, "value")]
  ELSE IF Truthy(Prop(options, "omit"))
  THEN [key |-> name, act |-> "omit", value |-> Prop(options, "omit")]
  ELSE [key |-> name, act |-> "alias", value |-> name]

\* expose, lines 156-162 and 180-197: the stored key, the act and its value
exposeAct(name, options, fn) ==
  LET base == IF Truthy(fn)
              THEN [key |-> name, act |-> "function", value |-> fn]
              ELSE [key |-> name, act |-> "alias", value |-> name]
  IN IF Truthy(Prop(options, "as"))
     THEN [key |-> Prop(options, "as"), act |-> "alias", value |-> name]
     ELSE IF Truthy(Prop(options, "get"))
     THEN [key |-> name, act |-> "get", value |-> Prop(options, "get")]
     ELSE IF Truthy(Prop(options, "value"))
     THEN [key |-> name, act |-> "value", value |-> Prop(options, "value")]
     ELSE IF Truthy(Prop(options, "omit"))
     THEN [key |-> name, act |-> "omit", value |-> Prop(options, "omit")]
     ELSE base

\* expose, lines 134-135 and 166-168: the rule's default
exposeDefault(options) ==
  IF DOMAIN options.v # {} /\ "default" \in DOMAIN options.v
  THEN IF options.v["default"] = Undef THEN Null ELSE options.v["default"]
  ELSE Null

\* expose, lines 133-208: one pass of the loop, up to the store.  A thrown
\* error, or [key, rule].
exposeOne(name, options, fn) ==
  LET chk == exposeChecks(name, options, fn)
      ty == exposeType(options)
      a == exposeAct(name, options, fn)
      oif == Prop(options, "if")
      ous == Prop(options, "using")
      oas == Prop(options, "as")
  IN IF ~chk.ok THEN chk
     ELSE IF ~ty.ok THEN ty
     ELSE IF Truthy(oif) /\ ~isFunction(oif) THEN Throw("if condition must be a function")
     ELSE IF Truthy(ous) /\ ~isEntity(ous) THEN Throw("using must be a Entity")
     ELSE IF Truthy(oas) /\ ~isString(oas) THEN Throw("is not a valid string")
     ELSE Ret([key |-> a.key.v,
               rule |-> [type |-> ty.val, act |-> a.act, value |-> a.value,
                         default |-> exposeDefault(options),
                         if |-> IF Truthy(oif) THEN oif ELSE Null,
                         using |-> IF Truthy(ous) THEN ous ELSE Null]])

\* expose, lines 110-131: the arguments split into names, options and fn
exposeArgs(args) ==
  IF Len(args) = 0
  THEN [ok |-> FALSE, val |-> Err("'undefined' is not a valid string"),
        names |-> <<>>, options |-> EmptyObj, fn |-> Undef]
  ELSE IF Len(args) > 1
  THEN LET hasFn == isFunction(args[Len(args)])
           fn == IF hasFn THEN args[Len(args)] ELSE Undef
           a1 == IF hasFn THEN SubSeq(args, 1, Len(args) - 1) ELSE args
           hasOpt == Len(a1) >= 1 /\ isPlainObject(a1[Len(a1)])
           options == IF hasOpt THEN a1[Len(a1)] ELSE EmptyObj
           a2 == IF hasOpt THEN SubSeq(a1, 1, Len(a1) - 1) ELSE a1
           err == IF Len(a2) > 1 /\ Truthy(Prop(options, "as"))
                  THEN "You may not use the :as option on multi-attribute exposures."
                  ELSE IF Len(a2) > 1 /\ Truthy(fn)
                  THEN "You may not use function on multi-attribute exposures."
                  ELSE ""
       IN [ok |-> err = "", val |-> IF err = "" THEN Undef ELSE Err(err),
           names |-> a2, options |-> options, fn |-> fn]
  ELSE [ok |-> TRUE, val |-> Undef, names |-> args, options |-> EmptyObj, fn |-> Undef]

\* self._mappings[name] = rule
storeRule(tbl, key, rule) ==
  [k \in DOMAIN tbl \cup {key} |-> IF k = key THEN rule ELSE tbl[k]]

\* expose, lines 201-208: the assignment, which strict-mode code cannot make
\* on the frozen object Immutable() returns
assign(tbl, frozen, key, rule) ==
  IF frozen
  THEN [res |-> Throw("TypeError: Cannot assign to property of a frozen object"),
        tbl |-> tbl]
  ELSE [res |-> Ret(Undef), tbl |-> storeRule(tbl, key, rule)]

\* expose, lines 133-209: _.each(arguments, ...); a throw ends the loop and
\* keeps what the earlier passes stored
RECURSIVE exposeEach(_, _, _, _, _)
exposeEach(tbl, frozen, names, options, fn) ==
  IF names = <<>> THEN [res |-> Ret(Undef), tbl |-> tbl, keys |-> {}]
  ELSE LET one == exposeOne(names[1], options, fn)
       IN IF ~one.ok THEN [res |-> one, tbl |-> tbl, keys |-> {}]
          ELSE LET st == assign(tbl, frozen, one.val.key, one.val.rule)
               IN IF ~st.res.ok THEN [res |-> st.res, tbl |-> tbl, keys |-> {}]
                  ELSE [exposeEach(st.tbl, frozen, Tail(names), options, fn)
                          EXCEPT !.keys = @ \cup {one.val.key}]

\* Entity.expose: the outcome, the rule table after it, the keys it stored
\* and the options it read
expose(tbl, frozen, args) ==
  LET a == exposeArgs(args)
  IN IF ~a.ok
     THEN [res |-> [ok |-> FALSE, val |-> a.val], tbl |-> tbl, keys |-> {},
           options |-> a.options]
     ELSE LET r == exposeEach(tbl, frozen, a.names, a.options, a.fn)
          IN [res |-> r.res, tbl |-> r.tbl, keys |-> r.keys, options |-> a.options]

\* this._discards = false
NoDiscards == [on |-> FALSE, names |-> {}]

\* Entity.discard: _.union(this._discards || [], arguments, ['__v'])
discard(discards, names) ==
  [on |-> TRUE, names |-> discards.names \cup names \cup {"__v"}]

\* Entity.define, one entry of the specification: the arguments expose is
\* applied to, and the entry as the call leaves it (fn.unshift(name))
defineEntry(entry) ==
  IF entry.spec = Bool(TRUE)
  THEN [args |-> <<Str(entry.name)>>, entry |-> entry]
  ELSE IF entry.spec.t = "array"
  THEN LET fn == Arr(<<Str(entry.name)>> \o entry.spec.v)
       IN [args |-> fn.v, entry |-> [name |-> entry.name, spec |-> fn]]
  ELSE [args |-> <<Str(entry.name), entry.spec>>, entry |-> entry]

\* Entity.define, lines 40-50: _.each(definitions, ...) in key order; a throw
\* ends the loop
RECURSIVE defineEach(_, _, _)
defineEach(tbl, entries, i) ==
  IF i > Len(entries) THEN [res |-> Ret(Undef), tbl |-> tbl, entries |-> entries]
  ELSE LET d == defineEntry(entries[i])
           es == [entries EXCEPT ![i] = d.entry]
           r == expose(tbl, FALSE, d.args)
       IN IF ~r.res.ok THEN [res |-> r.res, tbl |-> r.tbl, entries |-> es]
          ELSE defineEach(r.tbl, es, i + 1)

\* Entity.define: definitions is undefined, or a plain object given as its
\* entries [name, spec] in key order, or anything else
defineAll(tbl, definitions) ==
  IF definitions.t = "spec" THEN defineEach(tbl, definitions.v, 1)
  ELSE IF definitions = Undef
  THEN [res |-> Ret(Undef), tbl |-> tbl, entries |-> <<>>]
  ELSE [res |-> Throw("is not a valid object"), tbl |-> tbl, entries |-> <<>>]

SpecObj(entries) == [t |-> "spec", v |-> entries]

EmptyTable == [k \in {} |-> Null]

\* the reference of the rule table of the copy Immutable(this) makes: a new
\* object (a deep copy)
freezeTbl(e) == Len(tables) + 1
\* the reference of the rule table of the copy asMutable({deep: true}) makes
extendTbl_shared(e) == ents[e].tbl
extendTbl(e) == Len(tables) + 1

----------------------------------------------------------------------------
(* Entity.parse: the mapping engine (src/src/entity.js, lines 218-347) *)

\* the element of a one-element set: gives an intermediate result a name
Only(S) == CHOOSE x \in S : TRUE

\* fp.isEmpty of a string, an array or an object
isEmpty(v) ==
  \/ v = Str("")
  \/ v.t = "array" /\ Len(v.v) = 0
  \/ v.t = "object" /\ DOMAIN v.v = {}

\* the rule of a key that has none, line 273
SyntheticRule(key) ==
  [type |-> Str("any"), act |-> "alias", value |-> Str(key), default |-> Undef,
   if |-> Undef, using |-> Undef]
ruleFor(tbl, key) == IF key \in DOMAIN tbl THEN tbl[key] ELSE SyntheticRule(key)

\* lines 254 and 262-265: the keys of the rule table; with discards, those and
\* the input's own keys, less the discarded ones
activeKeys(tbl, discards, obj) ==
  IF discards.on THEN (DOMAIN tbl \cup DOMAIN obj.v) \ discards.names
  ELSE DOMAIN tbl

\* _.sortBy(keys) of distinct strings: ascending
RECURSIVE sortBy(_)
sortBy(S) ==
  IF S = {} THEN <<>>
  ELSE LET m == CHOOSE x \in S : \A y \in S \ {x} : StrLess(x, y)
       IN <<m>> \o sortBy(S \ {m})

\* lines 267-270: keys.unshift('id') when the sorted keys hold 'id'
orderKeys(S) == IF "id" \in S THEN <<"id">> \o sortBy(S) ELSE sortBy(S)

\* the names an omit option lists
OmitNames(paths) ==
  IF paths.t = "array" THEN {paths.v[i].v : i \in 1..Len(paths.v)}
  ELSE IF paths.t = "string" THEN {paths.v}
  ELSE {}

\* _.omit(val, paths) of a truthy val: a copy of its own enumerable keys, less
\* the paths
omit(val, paths) ==
  LET all == IF val.t = "object" THEN val.v
             ELSE IF val.t = "string"
             THEN [k \in {NatToStr(i - 1) : i \in 1..Len(val.v)} |->
                     Str(CharAt(val.v, StrToNumber(k).v + 1))]
             ELSE [k \in {} |-> Undef]
  IN Obj([k \in DOMAIN all \ OmitNames(paths) |-> all[k]])

\* lines 281-309: the raw value of a key by the rule's act; a callback that
\* throws gives null
rawValue(opt, key, obj) ==
  CASE opt.act = "function" ->
         Only({IF r.ok THEN r.val ELSE Null : r \in {Call(opt.value, obj, EmptyObj)}})
    [] opt.act = "alias" -> Prop(obj, opt.value.v)
    [] opt.act = "get" -> Prop(obj, opt.value.v)
    [] opt.act = "omit" ->
         IF Truthy(Prop(obj, key)) THEN omit(Prop(obj, key), opt.value)
         ELSE Prop(obj, key)
    [] opt.act = "value" -> opt.value
    [] OTHER -> Null

\* what parse did for one key.  thrown: an error left the loop at this key;
\* skipped: the rule's condition was false; raw: the value by the act;
\* applied: the default replaced it; pre and val: the value before and after
\* the coercion; written: the output has the key.
StepOf(key, thrown, skipped, raw, applied, pre, val) ==
  [key |-> key, thrown |-> thrown, skipped |-> skipped, raw |-> raw,
   applied |-> applied, pre |-> pre, val |-> val,
   written |-> ~thrown /\ ~skipped /\ val # Undef]
Aborted(key, r) ==
  [res |-> r, step |-> StepOf(key, TRUE, FALSE, Undef, FALSE, Undef, Undef)]
Skipped(key) ==
  [res |-> Ret(Undef), step |-> StepOf(key, FALSE, TRUE, Undef, FALSE, Undef, Undef)]

\* a bug: a failed coercion leaves the loop
keyCoerce_noCatch(key, opt, raw, applied, val) ==
  Only({IF r.ok THEN [res |-> Ret(Undef),
                      step |-> StepOf(key, FALSE, FALSE, raw, applied, val, r.val)]
        ELSE Aborted(key, r) : r \in {convert(val, opt.type, EmptyObj)}})

\* lines 331-341: the coercion, whose failure keeps the value; then the write
keyCoerce(key, opt, raw, applied, val) ==
  Only({[res |-> Ret(Undef),
         step |-> StepOf(key, FALSE, FALSE, raw, applied, val,
                         IF r.ok THEN r.val ELSE val)] :
        r \in {convert(val, opt.type, EmptyObj)}})

RECURSIVE parse(_, _, _)

\* lines 322-329: the nested definition, when no default was applied
keyUsing(key, opt, converter, raw, applied, val) ==
  IF ~applied /\ Truthy(opt.using)
  THEN Only({IF r.ok THEN keyCoerce(key, opt, raw, applied, r.val) ELSE Aborted(key, r) :
             r \in {parse(opt.using.v, val, converter)}})
  ELSE keyCoerce(key, opt, raw, applied, val)

\* lines 318-320: the converter function parse was given
keyConverter(key, opt, converter, raw, applied, val) ==
  IF Truthy(converter) /\ isFunction(converter)
  THEN Only({IF r.ok THEN keyUsing(key, opt, converter, raw, applied, r.val)
             ELSE Aborted(key, r) : r \in {Call(converter, val, EmptyObj)}})
  ELSE keyUsing(key, opt, converter, raw, applied, val)

\* lines 311-316: the default, for a nil raw value
keyDefault(key, opt, converter, raw) ==
  IF isNil(raw) /\ opt.default # Undef
  THEN keyConverter(key, opt, converter, raw, TRUE, opt.default)
  ELSE keyConverter(key, opt, converter, raw, FALSE, raw)

\* lines 273-342: one pass of the loop over the keys
parseKey(tbl, obj, converter, key) ==
  Only({IF Truthy(opt.if)
        THEN Only({IF ~c.ok THEN Aborted(key, c)
                   ELSE IF ~Truthy(c.val) THEN Skipped(key)
                   ELSE keyDefault(key, opt, converter, rawValue(opt, key, obj)) :
                   c \in {Call(opt.if, obj, EmptyObj)}})
        ELSE keyDefault(key, opt, converter, rawValue(opt, key, obj)) :
        opt \in {ruleFor(tbl, key)}})

\* _.set(result, key, val): a new key comes last in the object's key order
setKey(acc, st) ==
  IF ~st.written THEN [acc EXCEPT !.steps = Append(@, st)]
  ELSE [acc EXCEPT !.steps = Append(@, st),
                   !.out = [k \in DOMAIN @ \cup {st.key} |->
                              IF k = st.key THEN st.val ELSE @[k]],
                   !.order = IF \E i \in 1..Len(@) : @[i] = st.key THEN @
                             ELSE Append(@, st.key)]

\* line 272: _.each(keys, ...); an error thrown in a pass leaves parse
RECURSIVE parseKeys(_, _, _, _, _)
parseKeys(tbl, obj, converter, keys, acc) ==
  IF keys = <<>> THEN acc
  ELSE Only({IF ~s.res.ok
             THEN [acc EXCEPT !.res = s.res, !.steps = Append(@, s.step)]
             ELSE parseKeys(tbl, obj, converter, Tail(keys), setKey(acc, s.step)) :
             s \in {parseKey(tbl, obj, converter, keys[1])}})

\* lines 254-345: parse of an object through a definition that has rules or
\* discards: the outcome, the keys in the order processed, the steps, the
\* output's keys in their order
parseObject(e, obj, converter) ==
  Only({Only({[a EXCEPT !.res = IF a.res.ok THEN Ret(Obj(a.out)) ELSE a.res] :
              a \in {parseKeys(tables[ents[e].tbl], obj, converter, keys,
                               [res |-> Ret(Undef), keys |-> keys, steps |-> <<>>,
                                out |-> [k \in {} |-> Undef], order |-> <<>>])}}) :
        keys \in {orderKeys(activeKeys(tables[ents[e].tbl], ents[e].discards, obj))}})

\* what parse returns without looking at a key
NoKeys(r) ==
  [res |-> r, keys |-> <<>>, steps |-> <<>>, out |-> [k \in {} |-> Undef],
   order |-> <<>>]

\* Entity.parse(input, {}, converter), as parseObject gives it.  The input is a
\* primitive, an array or a plain object (no toObject, no toJSON).
parseTop(e, input, converter) ==
  IF isNil(input) \/ isEmpty(input) THEN NoKeys(Ret(input))
  ELSE IF input.t = "array"
  THEN NoKeys(mapResults([i \in 1..Len(input.v) |-> parse(e, input.v[i], converter)]))
  ELSE IF DOMAIN tables[ents[e].tbl] = {} /\ ~ents[e].discards.on THEN NoKeys(Ret(input))
  ELSE IF input.t # "object" THEN NoKeys(Ret(input))
  ELSE parseObject(e, input, converter)

parse(e, input, converter) == parseTop(e, input, converter).res

----------------------------------------------------------------------------
(* The state, and the calls a program makes *)

regVars == <<converters, regHist, conv>>
defVars == <<ents, tables, exposedWith>>
callerVars == <<specMap, specOrig, builds>>

NoCall == [op |-> "none", ent |-> 0, args |-> <<>>, res |-> Ret(Undef),
           changed |-> FALSE, ret |-> 0]
NoConv == [called |-> FALSE, val |-> Undef, type |-> Undef, res |-> Ret(Undef)]
NoParse == [called |-> FALSE]

\* the module as loaded: the built-in converters registered, nothing built
InitRegistry ==
  /\ converters = BuiltinConverters
  /\ regHist = [n \in DOMAIN BuiltinConverters |->
                  [op |-> "define", c |-> BuiltinConverters[n]]]
  /\ conv = NoConv

InitNoEntity ==
  /\ ents = <<>>
  /\ tables = <<>>
  /\ exposedWith = <<>>
  /\ last = NoCall

\* new Entity(name) for each name, in turn
InitEntities(names) ==
  /\ ents = [i \in 1..Len(names) |->
               [name |-> names[i], tbl |-> i, discards |-> NoDiscards, frozen |-> FALSE]]
  /\ tables = [i \in 1..Len(names) |-> EmptyTable]
  /\ exposedWith = [i \in 1..Len(names) |-> EmptyTable]
  /\ last = NoCall

InitNoCaller == specMap = Undef /\ specOrig = Undef /\ builds = 0

Table(e) == tables[ents[e].tbl]

\* e.expose(...args)
DoExpose(e, args) ==
  /\ e \in DOMAIN ents
  /\ \E r \in {expose(Table(e), ents[e].frozen, args)}, ref \in {ents[e].tbl} :
        /\ tables' = [tables EXCEPT ![ref] = r.tbl]
        /\ exposedWith' = [exposedWith EXCEPT ![ref] =
             [k \in DOMAIN exposedWith[ref] \cup r.keys |->
                IF k \in r.keys THEN r.options ELSE exposedWith[ref][k]]]
        /\ last' = [op |-> "expose", ent |-> e, args |-> args, res |-> r.res,
                    changed |-> r.tbl # Table(e), ret |-> 0]
  /\ pres' = NoParse
  /\ UNCHANGED <<regVars, callerVars, ents>>

\* e.discard(...names): the assignment to this._discards fails on a frozen
\* definition
DoDiscard(e, names) ==
  /\ e \in DOMAIN ents
  /\ IF ents[e].frozen
     THEN /\ last' = [op |-> "discard", ent |-> e, args |-> <<>>,
                      res |-> Throw("TypeError: Cannot assign to property of a frozen object"),
                      changed |-> FALSE, ret |-> 0]
          /\ UNCHANGED ents
     ELSE /\ ents' = [ents EXCEPT ![e].discards = discard(ents[e].discards, names)]
          /\ last' = [op |-> "discard", ent |-> e, args |-> <<>>, res |-> Ret(Undef),
                      changed |-> ents'[e] # ents[e], ret |-> 0]
  /\ pres' = NoParse
  /\ UNCHANGED <<regVars, callerVars, tables, exposedWith>>

\* a new Entity object whose rule table is the object at reference ref; a
\* reference past the last one is a new object, holding a copy of tbl
Allocate(ent, ref, tbl, ghost) ==
  /\ ents' = Append(ents, ent)
  /\ tables' = IF ref > Len(tables) THEN Append(tables, tbl) ELSE tables
  /\ exposedWith' = IF ref > Len(tables) THEN Append(exposedWith, ghost) ELSE exposedWith

\* e.freeze(): Immutable(this, ...) returns an immutable definition as it is,
\* and a deep, frozen copy of a mutable one
DoFreeze(e) ==
  /\ e \in DOMAIN ents
  /\ IF ents[e].frozen
     THEN /\ last' = [op |-> "freeze", ent |-> e, args |-> <<>>, res |-> Ret(EntRef(e)),
                      changed |-> FALSE, ret |-> e]
          /\ UNCHANGED defVars
     ELSE /\ Len(ents) < MaxEnt
          /\ Allocate([name |-> ents[e].name, tbl |-> freezeTbl(e),
                       discards |-> ents[e].discards, frozen |-> TRUE],
                      freezeTbl(e), Table(e), exposedWith[ents[e].tbl])
          /\ last' = [op |-> "freeze", ent |-> e, args |-> <<>>,
                      res |-> Ret(EntRef(Len(ents) + 1)), changed |-> FALSE,
                      ret |-> Len(ents) + 1]
  /\ pres' = NoParse
  /\ UNCHANGED <<regVars, callerVars>>

\* e.extend(name)
DoExtend(e, name) ==
  /\ e \in DOMAIN ents
  /\ IF ents[e].frozen
     THEN /\ Len(ents) < MaxEnt
          /\ Allocate([name |-> name, tbl |-> extendTbl(e),
                       discards |-> ents[e].discards, frozen |-> FALSE],
                      extendTbl(e), Table(e), exposedWith[ents[e].tbl])
          /\ last' = [op |-> "extend", ent |-> e, args |-> <<Str(name)>>,
                      res |-> Ret(EntRef(Len(ents) + 1)), changed |-> FALSE,
                      ret |-> Len(ents) + 1]
     ELSE /\ last' = [op |-> "extend", ent |-> e, args |-> <<Str(name)>>,
                      res |-> Throw("Cannot extend an mutable entity: " \o ents[e].name),
                      changed |-> FALSE, ret |-> 0]
          /\ UNCHANGED defVars
  /\ pres' = NoParse
  /\ UNCHANGED <<regVars, callerVars>>

\* new Entity(name, specMap): the constructor and its define call.  A throw
\* leaves no Entity; what define did to the caller's object stays.
DoConstruct(name) ==
  /\ builds < MaxBuilds
  /\ builds' = builds + 1
  /\ \E r \in {defineAll(EmptyTable, specMap)} :
        /\ specMap' = IF specMap.t = "spec" THEN SpecObj(r.entries) ELSE specMap
        /\ IF r.res.ok
           THEN Allocate([name |-> name, tbl |-> Len(tables) + 1,
                          discards |-> NoDiscards, frozen |-> FALSE],
                         Len(tables) + 1, r.tbl, EmptyTable)
           ELSE UNCHANGED defVars
        /\ last' = [op |-> "construct", ent |-> 0, args |-> <<>>, res |-> r.res,
                    changed |-> r.res.ok,
                    ret |-> IF r.res.ok THEN Len(ents) + 1 ELSE 0]
  /\ pres' = NoParse
  /\ UNCHANGED <<regVars, specOrig>>

\* the last define/undefine call made on a type name
LastReg(n) == IF n \in DOMAIN regHist THEN regHist[n] ELSE [op |-> "none", c |-> Undef]

\* Dynamic.define(n, c)
DoDefine(n, c) ==
  /\ converters' = define(converters, n, c)
  /\ regHist' = [k \in DOMAIN regHist \cup {n} |->
                   IF k = n THEN [op |-> "define", c |-> c] ELSE regHist[k]]
  /\ conv' = NoConv
  /\ pres' = NoParse
  /\ UNCHANGED <<defVars, callerVars, last>>

\* Dynamic.undefine(n)
DoUndefine(n) ==
  /\ converters' = undefine(converters, n)
  /\ regHist' = [k \in DOMAIN regHist \cup {n} |->
                   IF k = n THEN [op |-> "undefine", c |-> Undef] ELSE regHist[k]]
  /\ conv' = NoConv
  /\ pres' = NoParse
  /\ UNCHANGED <<defVars, callerVars, last>>

\* Dynamic.convert(val, type, {})
DoConvert(val, type) ==
  /\ conv' = [called |-> TRUE, val |-> val, type |-> type,
              res |-> convert(val, type, EmptyObj)]
  /\ UNCHANGED <<converters, regHist, defVars, callerVars, last, pres>>

\* e.parse(input, {}, converter): reads the definition and the registry,
\* changes neither
DoParse(e, input, converter) ==
  /\ e \in DOMAIN ents
  /\ \E r \in {parseTop(e, input, converter)} :
        pres' = [called |-> TRUE, ent |-> e, input |-> input,
                 converter |-> converter, res |-> r.res, keys |-> r.keys,
                 steps |-> r.steps, order |-> r.order]
  /\ UNCHANGED <<regVars, defVars, callerVars, last>>

----------------------------------------------------------------------------
(* The registry alone: define, undefine and convert calls *)

TypeNames == {"number", "money", "constructor"}
UserConverters == {Fn("cTag"), Fn("cThrow")}
ConvScalars == {Undef, Null, Str(""), Str("42"), Num(0), Num(5)}
ConvElems == {Null, Str("42")}
ConvVals == ConvScalars \cup {Arr(s) : s \in UNION {[1..n -> ConvElems] : n \in 0..MaxArr}}
ConvTypes == {Str(n) : n \in TypeNames} \cup {Arr(<<Str(n)>>) : n \in TypeNames}

InitReg == InitRegistry /\ InitNoEntity /\ InitNoCaller /\ pres = NoParse

NextReg ==
  \/ \E n \in TypeNames, c \in UserConverters : DoDefine(n, c)
  \/ \E n \in TypeNames : DoUndefine(n)
  \/ \E val \in ConvVals, type \in ConvTypes : DoConvert(val, type)

SpecRegistry == InitReg /\ [][NextReg]_vars

\* the element type of the last convert call, an array-form one
ConvElemType == conv.type.v[1]
ConvArrayCall == conv.called /\ conv.type.t = "array" /\ canConvert(ConvElemType)

\* [r] for an element outcome r, and r itself when it is a throw
OneElem(r) == IF r.ok THEN Ret(Arr(<<r.val>>)) ELSE r

\* C3, as stated: convert(value, [T]) with T registered is the empty array for
\* a nil (null or undefined) or empty-string value, [convert(value, T)] for
\* any other value that is no array, and for an array has the same length,
\* each element coerced to T.
C3_NilOrEmptyGivesEmptyArray ==
  ConvArrayCall =>
    /\ (isNil(conv.val) \/ conv.val = Str("")) => conv.res = Ret(Arr(<<>>))
    /\ (conv.val.t # "array" /\ ~isNil(conv.val) /\ conv.val # Str(""))
         => conv.res = OneElem(to(conv.val, EmptyObj, ConvElemType))
    /\ (conv.val.t = "array" /\ conv.res.ok)
         => /\ Len(conv.res.val.v) = Len(conv.val.v)
            /\ \A i \in 1..Len(conv.val.v) :
                 Ret(conv.res.val.v[i]) = to(conv.val.v[i], EmptyObj, ConvElemType)

\* C3, amended: convert(value, [T]) with T registered is the empty array for
\* an undefined or empty-string value only; any other value that is no array,
\* null included, gives the one-element array [convert(value, T)]; an array
\* gives an array of the same length, each element coerced to T.  A converter
\* that throws makes the call throw.
C3_UndefinedOrEmptyGivesEmptyArray ==
  ConvArrayCall =>
    /\ (conv.val = Undef \/ conv.val = Str("")) => conv.res = Ret(Arr(<<>>))
    /\ (conv.val.t # "array" /\ conv.val # Undef /\ conv.val # Str(""))
         => conv.res = OneElem(to(conv.val, EmptyObj, ConvElemType))
    /\ conv.val.t = "array"
         => IF \A i \in 1..Len(conv.val.v) : to(conv.val.v[i], EmptyObj, ConvElemType).ok
            THEN /\ conv.res.ok
                 /\ Len(conv.res.val.v) = Len(conv.val.v)
                 /\ \A i \in 1..Len(conv.val.v) :
                      Ret(conv.res.val.v[i]) = to(conv.val.v[i], EmptyObj, ConvElemType)
            ELSE ~conv.res.ok

\* a null value converted to ['number']: the array holding null
C3_NullWrapped ==
  /\ ConvArrayCall
  /\ conv.val = Null
  /\ conv.type = Arr(<<Str("number")>>)
  /\ conv.res = Ret(Arr(<<Null>>))

\* C8: for every type name n and value v that is no array: when the last
\* registry call on n was define(n, c), canConvert(n) is true and
\* convert(v, n, ctx) is c(v, ctx); when it was undefine(n), or n is no
\* built-in and was never defined, canConvert(n) is false and convert fails
\* with the no-converter error.
C8_LastRegistryCallDecides ==
  \A n \in TypeNames, v \in ConvScalars :
    LET h == LastReg(n)
    IN IF h.op = "define"
       THEN /\ canConvert(Str(n))
            /\ convert(v, Str(n), EmptyObj) = Call(h.c, v, EmptyObj)
       ELSE /\ ~canConvert(Str(n))
            /\ convert(v, Str(n), EmptyObj) = NoConverter(Str(n))

----------------------------------------------------------------------------
(* One definition and the expose calls made on it *)

\* the option objects the calls draw from: every combination of the as, get,
\* value and omit options, a falsy value option, and the two forms of a type
OptValsA ==
  [as |-> Str("b"), get |-> Str("g"), value |-> Num(7),
   omit |-> Arr(<<Str("p")>>)]
OptionsX ==
  {Obj([k \in D |-> OptValsA[k]]) : D \in SUBSET DOMAIN OptValsA}
    \cup {Obj([k \in {"value"} |-> Num(0)]),
          Obj([k \in {"type"} |-> Str("Number")]),
          Obj([k \in {"type"} |-> Arr(<<Str("number")>>)]),
          Obj([k \in {"type", "as"} |->
                 IF k = "as" THEN Str("b") ELSE Arr(<<Str("number")>>)])}
TailsX ==
  {<<>>, <<Fn("cTag")>>} \cup {<<o>> : o \in OptionsX}
    \cup {<<o, Fn("cTag")>> : o \in OptionsX}
ExposeArgsX ==
  {<<Str("a")>> \o tl : tl \in TailsX}
    \cup {<<Str("a"), Str("c")>> \o tl :
            tl \in {<<>>, <<Fn("cTag")>>, <<Obj([k \in {"as"} |-> Str("b")])>>}}
    \cup {<<Str("b c")>>, <<>>}

InitExpose == InitRegistry /\ InitEntities(<<"A">>) /\ InitNoCaller /\ pres = NoParse

NextExpose == \E args \in ExposeArgsX : DoExpose(1, args)

SpecExpose == InitExpose /\ [][NextExpose]_vars

\* the options object and the function of the last expose call
LastArgs == exposeArgs(last.args)
LastOpt(k) == Prop(LastArgs.options, k)
\* the last call was expose(name, [options], [fn]) of one valid name
LastExposeOne ==
  /\ last.op = "expose"
  /\ Len(LastArgs.names) = 1
  /\ LastArgs.names[1] = Str("a")

\* C2: a rule exposed with an array-form type (['number']) is accepted at
\* definition time and the stored rule keeps the array form, so that every
\* parse through it writes an array.  Stated for the definition: the call
\* returns and the rule stored under the name has the type it was given.
C2_ArrayTypeAccepted ==
  (LastExposeOne /\ LastOpt("type").t = "array" /\ ~Truthy(LastOpt("as"))
     /\ ~Truthy(LastArgs.fn))
    => /\ last.res.ok
       /\ "a" \in DOMAIN Table(1)
       /\ Table(1)["a"].type = LastOpt("type")

\* the rule the last call stored under key, were it [act, value]
Stored(key, act, value) ==
  /\ key \in DOMAIN Table(1)
  /\ Table(1)[key].act = act
  /\ Table(1)[key].value = value

\* the call combines options that the messages of expose's assertions name
\* as forbidden (lines 144-147): as with a function, value with a function,
\* value with as
LastForbidden ==
  \/ Truthy(LastOpt("as")) /\ Truthy(LastArgs.fn)
  \/ Truthy(LastOpt("value")) /\ Truthy(LastArgs.fn)
  \/ Truthy(LastOpt("value")) /\ Truthy(LastOpt("as"))

\* C4, as stated: a transform function gives act Function whatever get, value
\* or omit option comes with it; otherwise as gives Alias under the as key,
\* otherwise get gives Get, otherwise value gives Value, otherwise omit gives
\* Omit, otherwise a same-name Alias.  Stated for the calls that combine no
\* forbidden options.
C4_FunctionWins ==
  (LastExposeOne /\ last.res.ok /\ ~LastForbidden) =>
    IF Truthy(LastArgs.fn) THEN Stored("a", "function", LastArgs.fn)
    ELSE IF Truthy(LastOpt("as")) THEN Stored(LastOpt("as").v, "alias", Str("a"))
    ELSE IF Truthy(LastOpt("get")) THEN Stored("a", "get", LastOpt("get"))
    ELSE IF Truthy(LastOpt("value")) THEN Stored("a", "value", LastOpt("value"))
    ELSE IF Truthy(LastOpt("omit")) THEN Stored("a", "omit", LastOpt("omit"))
    ELSE Stored("a", "alias", Str("a"))

\* C4, amended: the options come before the function.  In a call that
\* combines no forbidden options, a truthy as option gives Alias under the as
\* key (read path = name); otherwise a truthy get gives Get, otherwise a
\* truthy value gives Value, otherwise a truthy omit gives Omit, get and omit
\* also when a function is supplied; otherwise a function gives Function;
\* otherwise a same-name Alias.
C4_OptionsOverrideFunction ==
  (LastExposeOne /\ last.res.ok /\ ~LastForbidden) =>
    IF Truthy(LastOpt("as")) THEN Stored(LastOpt("as").v, "alias", Str("a"))
    ELSE IF Truthy(LastOpt("get")) THEN Stored("a", "get", LastOpt("get"))
    ELSE IF Truthy(LastOpt("value")) THEN Stored("a", "value", LastOpt("value"))
    ELSE IF Truthy(LastOpt("omit")) THEN Stored("a", "omit", LastOpt("omit"))
    ELSE IF Truthy(LastArgs.fn) THEN Stored("a", "function", LastArgs.fn)
    ELSE Stored("a", "alias", Str("a"))

\* a function exposed with a get option and no other act option: the rule
\* stored is a Get
C4_FunctionWithGet ==
  /\ LastExposeOne
  /\ last.res.ok
  /\ ~LastForbidden
  /\ Truthy(LastArgs.fn)
  /\ Truthy(LastOpt("get"))
  /\ ~Truthy(LastOpt("as"))
  /\ Stored("a", "get", Str("g"))

\* C5: expose rejects a rename (as) option given with a function, and a
\* fixed-value (value) option given with a rename (as) option: the call
\* fails and stores no rule.
C5_AmbiguousOptionsRejected ==
  (/\ last.op = "expose"
   /\ Truthy(LastOpt("as"))
   /\ Truthy(LastArgs.fn) \/ Truthy(LastOpt("value")))
    => ~last.res.ok /\ ~last.changed

----------------------------------------------------------------------------
(* Definitions frozen and extended *)

ExposeArgsF ==
  {<<Str("a")>>, <<Str("a"), Obj([k \in {"as"} |-> Str("b")])>>}
DiscardNamesF == {{"secret"}}

\* no rule of these definitions has a using option: Immutable() would copy the
\* definition it names too
InitFreeze == InitRegistry /\ InitEntities(<<"D">>) /\ InitNoCaller /\ pres = NoParse

NextFreeze ==
  \/ \E e \in 1..MaxEnt, args \in ExposeArgsF : DoExpose(e, args)
  \/ \E e \in 1..MaxEnt, names \in DiscardNamesF : DoDiscard(e, names)
  \/ \E e \in 1..MaxEnt : DoFreeze(e)
  \/ \E e \in 1..MaxEnt : DoExtend(e, "D2")

SpecFreeze == InitFreeze /\ [][NextFreeze]_vars

\* what the last call on a definition says of it, once made
FrozenCallsFail ==
  /\ (last.op \in {"expose", "discard"} /\ ents[last.ent].frozen)
       => ~last.res.ok /\ ~last.changed
  /\ (last.op = "extend" /\ ~ents[last.ent].frozen) => ~last.res.ok
  /\ (last.op = "extend" /\ ents[last.ent].frozen)
       => /\ last.res.ok
          /\ last.ret \in DOMAIN ents
          /\ last.ret # last.ent
          /\ ents[last.ret].name = last.args[1].v
          /\ ~ents[last.ret].frozen

\* the extend call itself: the clone is a new definition holding the rules and
\* the discard set of its receiver
ExtendCopies ==
  (last'.op = "extend" /\ last'.res.ok)
    => /\ last'.ret = Len(ents) + 1
       /\ tables'[ents'[last'.ret].tbl] = Table(last'.ent)
       /\ ents'[last'.ret].discards = ents[last'.ent].discards

\* a step changes no frozen definition, and no definition but its receiver
OthersUnchanged ==
  \A g \in DOMAIN ents :
    (ents[g].frozen \/ g # last'.ent)
      => /\ ents'[g] = ents[g]
         /\ tables'[ents'[g].tbl] = tables[ents[g].tbl]

----------------------------------------------------------------------------
(* Definitions built from a specification object the caller keeps *)

SpecValsD ==
  {Bool(TRUE), Fn("cTag"), Obj([k \in {"type"} |-> Str("number")]),
   Arr(<<>>), Arr(<<Obj([k \in {"as"} |-> Str("x")])>>),
   Arr(<<Obj([k \in {"type"} |-> Str("number")])>>), Arr(<<Fn("cTag")>>),
   Arr(<<Str("c")>>)}
SpecMapsD ==
  {SpecObj(<<[name |-> "a", spec |-> x]>>) : x \in SpecValsD}
    \cup {SpecObj(<<[name |-> "a", spec |-> x], [name |-> "b", spec |-> y]>>) :
            x \in SpecValsD, y \in SpecValsD}

InitDefine ==
  /\ InitRegistry
  /\ InitNoEntity
  /\ specMap \in SpecMapsD
  /\ specOrig = specMap
  /\ builds = 0
  /\ pres = NoParse

NextDefine == DoConstruct("A")

SpecDefine == InitDefine /\ [][NextDefine]_vars

\* C10: define does not modify the specification object it is given: after a
\* definition is built from it the object and its array entries are as the
\* caller wrote them, so a second definition built from it is built as the
\* first was and has the same rule table.
C10_SpecificationUntouched ==
  /\ specMap = specOrig
  /\ Len(ents) >= 1
       => /\ last.res.ok
          /\ \A i, j \in DOMAIN ents : Table(i) = Table(j)

----------------------------------------------------------------------------
(* Parsing: two definitions A (1) and B (2), B nested in A's rule for b *)

OneOpt(k, v) == Obj([x \in {k} |-> v])
TwoOpts(k1, v1, k2, v2) == Obj([x \in {k1, k2} |-> IF x = k1 THEN v1 ELSE v2])

ExposeArgsP ==
  {<<Str("a")>>,
   <<Str("a"), OneOpt("default", Num(9))>>,
   <<Str("a"), OneOpt("type", Str("Number"))>>,
   <<Str("a"), OneOpt("type", Str("money")), Fn("cThrow")>>,
   <<Str("a"), OneOpt("if", Fn("cThrow"))>>,
   <<Str("a"), OneOpt("if", Fn("cFalse"))>>,
   <<Str("b"), OneOpt("using", EntRef(2))>>,
   <<Str("b"), TwoOpts("using", EntRef(2), "default", Num(9))>>}
ExposeArgsNested == {<<Str("x"), OneOpt("type", Str("number"))>>}

FieldsA == {Undef, Null, Str("5")}
FieldsB == {Undef, OneOpt("x", Str("1"))}
\* the object with a and b as given, a key absent when its value is undefined
InputOf(a, b) ==
  Obj([k \in {x \in {"a"} : a # Undef} \cup {x \in {"b"} : b # Undef} |->
         IF k = "a" THEN a ELSE b])
InputsP ==
  {InputOf(a, b) : a \in FieldsA, b \in FieldsB}
    \cup {Str("p"), Arr(<<InputOf(Str("5"), Undef), InputOf(Null, Undef)>>)}
ConvertersP == {Undef, Fn("cTag"), Fn("cThrow")}

InitParse == InitRegistry /\ InitEntities(<<"A", "B">>) /\ InitNoCaller /\ pres = NoParse

NextParse ==
  \/ \E args \in ExposeArgsP : DoExpose(1, args)
  \/ \E args \in ExposeArgsNested : DoExpose(2, args)
  \/ DoDefine("money", Fn("cThrow"))
  \/ \E input \in InputsP, c \in ConvertersP : DoParse(1, input, c)

SpecParse == InitParse /\ [][NextParse]_vars

\* the parse just made went through the keys of a non-empty object
ParsedObject == pres.called /\ pres.keys # <<>>
\* the steps of it that reached the default
Reached == {i \in 1..Len(pres.steps) : ~pres.steps[i].thrown /\ ~pres.steps[i].skipped}
RuleAt(i) == ruleFor(Table(pres.ent), pres.steps[i].key)
\* the rule of the step's key was exposed with a default option key
ExposedWithDefault(i) ==
  LET given == exposedWith[ents[pres.ent].tbl]
      key == pres.steps[i].key
  IN key \in DOMAIN given /\ "default" \in DOMAIN given[key].v

\* C1: a default is applied to a field if and only if its raw value is nil and
\* its rule was exposed with a default option key; a rule exposed without one
\* leaves an undefined raw value undefined, so that with type any and no
\* converter function the output has no such key.
C1_DefaultIffConfigured ==
  ParsedObject =>
    \A i \in Reached :
      /\ pres.steps[i].applied <=> (isNil(pres.steps[i].raw) /\ ExposedWithDefault(i))
      /\ (/\ ~ExposedWithDefault(i)
          /\ pres.steps[i].raw = Undef
          /\ RuleAt(i).type = Str("any")
          /\ pres.converter = Undef
          /\ RuleAt(i).using = Undef) => ~pres.steps[i].written

\* some rule of some definition has a condition that throws
SomeConditionThrows ==
  \E t \in DOMAIN tables : \E k \in DOMAIN tables[t] : tables[t][k].if = Fn("cThrow")
CallbackThrew(i) ==
  RuleAt(i).act = "function" /\ ~Call(RuleAt(i).value, pres.input, EmptyObj).ok
CoercionFailed(i) == ~convert(pres.steps[i].pre, RuleAt(i).type, EmptyObj).ok

\* C6 as stated: parse of a non-empty object returns a result, whatever a
\* single field's rule does.
C6_ParseNeverThrows ==
  (pres.called /\ pres.input.t = "object" /\ ~isEmpty(pres.input)) => pres.res.ok

\* C6: a Function callback that throws gives the field the raw value null, a
\* coercion that fails leaves the field its value, and in both cases the
\* other fields are processed; parse throws only what a rule's condition or
\* the converter function it was given throws.
C6_CallbackAndCoercionErrorsCaught ==
  /\ (pres.called /\ ~pres.res.ok) =>
        (pres.converter = Fn("cThrow") \/ SomeConditionThrows)
  /\ ParsedObject =>
        \A i \in Reached :
          /\ CallbackThrew(i) => pres.steps[i].raw = Null
          /\ CoercionFailed(i) => pres.steps[i].val = pres.steps[i].pre

\* a callback threw and the coercion failed in one field, a later field was
\* written, and parse returned
C6_BadFieldSurvived ==
  /\ ParsedObject /\ pres.res.ok
  /\ \E i \in Reached, j \in Reached :
        /\ i < j
        /\ CallbackThrew(i) /\ CoercionFailed(i)
        /\ pres.steps[j].written

----------------------------------------------------------------------------
(* The key sequence: one definition, with discards *)

ExposeArgsK ==
  {<<Str("id")>>, <<Str("name"), Fn("cTag")>>, <<Str("a"), OneOpt("as", Str("z"))>>}
DiscardNamesK == {{}, {"secret"}}
KeysK == {"id", "name", "secret", "__v", "B"}
InputsK ==
  {Obj([k \in S |-> Str(k)]) :
     S \in {KeysK, {"name", "B"}, {"id"}, {"secret", "__v"}, {"id", "B", "secret"},
            {"name", "__v"}}}

InitKeys == InitRegistry /\ InitEntities(<<"A">>) /\ InitNoCaller /\ pres = NoParse

NextKeys ==
  \/ \E args \in ExposeArgsK : DoExpose(1, args)
  \/ \E names \in DiscardNamesK : DoDiscard(1, names)
  \/ \E input \in InputsK : DoParse(1, input, Undef)

SpecKeys == InitKeys /\ [][NextKeys]_vars

ActiveSet == activeKeys(Table(pres.ent), ents[pres.ent].discards, pres.input)
Written == {pres.steps[i].key : i \in {j \in Reached : pres.steps[j].written}}

\* C9: the keys parse processes are the active keys, ascending, with id moved
\* to the front; each active key is in the sequence once and its rule is
\* evaluated once; the output's keys come id first, then ascending.
C9_EachActiveKeyOnce ==
  ParsedObject =>
    /\ {pres.keys[i] : i \in 1..Len(pres.keys)} = ActiveSet
    /\ \A i, j \in 1..Len(pres.keys) : pres.keys[i] = pres.keys[j] => i = j
    /\ \A i, j \in 1..Len(pres.keys) :
          i < j => (pres.keys[i] = "id" \/ StrLess(pres.keys[i], pres.keys[j]))
    /\ Len(pres.steps) = Len(pres.keys)
    /\ \A i \in 1..Len(pres.steps) : pres.steps[i].key = pres.keys[i]
    /\ {pres.order[i] : i \in 1..Len(pres.order)} = Written
    /\ \A i, j \in 1..Len(pres.order) :
          i < j => (pres.order[i] = "id" \/ StrLess(pres.order[i], pres.order[j]))

====
